---- MODULE Spec2Model ----
(***************************************************************************)
(* Pipeline execution engine of x-cosmos-mcp: the worker pool              *)
(* (app/worker_pool.py) and the batch coordinator                          *)
(* (MultiModelSEOManager.batch_process_products in app/pipeline.py).       *)
(*                                                                         *)
(* The pool runs on one asyncio event loop: an action is the code a        *)
(* coroutine runs between two suspension points.                           *)
(***************************************************************************)
EXTENDS Integers, Sequences, FiniteSets, TLC

(* ------------------------------ bounds -------------------------------- *)
MaxWorkers == 2           \* largest pool the model follows
MaxTasks == 2             \* task ids handed out by submit_task
MaxNow == 310             \* seconds of clock the model follows
MaxCycleSteps == 1        \* steps of the result processor the model follows
LongRun == 31             \* cycles of the result processor taken in one long step
NumCallers == 1           \* concurrent get_result callers besides the coordinator
MaxProducts == 2          \* length of the product_ids list of a batch
Epoch == 1700000000       \* time.time() when the pool is constructed
MaxSockets == 3           \* WebSocket objects that connect to the channel
MaxBroadcasts == 2        \* broadcast calls the model follows

(* -------------------------- program constants -------------------------- *)
DefaultMaxRetries == 3    \* task.data.get("_max_retries", 3)
MaxBackoff == 30          \* min(2**attempt, 30)
CleanupInterval == 10     \* asyncio.sleep(10) in _result_processor
ResultTTL == 3600         \* current_time - result.execution_time > 3600
StuckThreshold == 300     \* current_time - created_at > 300
BatchPriority == 1        \* submit_task(..., priority=1)
ProgressEvery == 5        \* (processed_count + failed_count) % 5 == 0
ExecMaxRetries == 3       \* max_retries: int = 3 of _call_model_with_fallback
MaxTokens == 10           \* len(candidate.split()) > 10
MinLength == 3            \* len(candidate) < 3
MaxLength == 200          \* len(candidate) > 200
TitleCut == 80            \* product.get("title", "")[:80]

Workers == 1..MaxWorkers
Sockets == 1..MaxSockets
Broadcasts == 1..MaxBroadcasts
TaskIds == 1..MaxTasks
Callers == 1..NumCallers
Priorities == {-1, 0}
QueueSizes == {1, 2}          \* WorkerPool(queue_size=...), default 100
PoolSizes == 1..MaxWorkers    \* WorkerPool(max_workers=...), default 4
NoTask == 0

VARIABLES
  (* WorkerPool *)
  running,          \* self.running
  max_workers,      \* self.max_workers
  queue_size,       \* self.queue_size, the maxsize of task_queue
  task_queue,       \* self.task_queue: sequence of task ids, head is served next
  unfinished_tasks, \* asyncio.Queue._unfinished_tasks (what join() waits on)
  putters,          \* task ids of submit_task calls suspended in task_queue.put()
  results,          \* self.results: task id -> WorkerResult
  task_futures,     \* keys of self.task_futures
  future,           \* state of the Future object created for each task id
  tasks,            \* the live WorkerTask records: id -> [priority, created_at, max_retries]
  next_task_id,     \* next unused task id (uuid4 is unique)
  worker_stats,     \* self.worker_stats counters
  (* Worker objects and the position of each _worker_loop *)
  status, current_task, task_count, error_count,
  wpc,              \* "new" | "start" | "get" | "handler" | "backoff" | "exited"
  wtask,            \* local `task` of _worker_loop
  attempt,          \* local `attempt` of process_task
  start_time,       \* local `start_time` of process_task
  sleep_for,        \* seconds of the asyncio.sleep(wait_time) in progress
  (* _result_processor and the clock *)
  rp_pc,            \* "new" | "start" | "sleeping" | "exited"
  rp_wake,          \* deadline of its asyncio.sleep(10)
  now,              \* seconds since the pool was constructed
  rp_steps,         \* steps the result processor has taken
  (* stop() *)
  stop_pc,          \* "idle" | "joining" | "returned"
  (* get_result callers *)
  cpc,              \* "idle" | "waiting"
  ctask,            \* task id of the caller's last get_result
  cout,             \* outcome of the caller's last get_result
  (* batch_process_products *)
  batch,            \* the coordinator's position, locals and effects (see NoBatch)
  pipeline_run,     \* the pipeline_runs row of the batch
  (* history *)
  accepted,         \* task ids whose put() completed
  published,        \* task id -> number of times self.results[id] was assigned
  dequeued,         \* task id -> number of times a worker dequeued it
  done_marked,      \* task ids for which task_done() was called
  failed_tasks,     \* task ids whose handler failed on every attempt
  pub_time,         \* task id -> clock at its publication, while cached
  before_stop,      \* task ids accepted when stop() was called
  blocked,          \* task ids whose put() was suspended on a full queue
  (* _call_model_with_fallback *)
  exec,             \* one call of the executor: position, locals, result (see NoCall)
  (* get_best_model_for_task *)
  sel,              \* one call of the model selection (see NoSelect)
  (* ConnectionManager *)
  ws,               \* the "pipeline_progress" channel and its broadcast calls
  (* OptimusV3.normalize_product_type *)
  gate              \* one call of the category normalization (see NoGate)

configVars == <<max_workers, queue_size>>
queueVars == <<task_queue, unfinished_tasks, putters>>
futVars == <<results, task_futures, future>>
taskVars == <<tasks, next_task_id>>
workerVars == <<status, current_task, task_count, error_count, wpc, wtask,
                attempt, start_time, sleep_for>>
rpVars == <<rp_pc, rp_wake, now, rp_steps>>
poolVars == <<running, stop_pc, queueVars, futVars, taskVars, worker_stats,
              workerVars, rpVars>>
callerVars == <<cpc, ctask, cout>>
batchVars == <<batch, pipeline_run>>
histVars == <<accepted, published, dequeued, done_marked, failed_tasks,
              pub_time, before_stop, blocked>>
managerVars == <<exec, sel, ws, gate>>
vars == <<configVars, poolVars, callerVars, batchVars, histVars, managerVars>>

(* ------------------------------ helpers -------------------------------- *)
Min(a, b) == IF a <= b THEN a ELSE b

Pow2(n) == 2 ^ n

\* time.time()
current_time == Epoch + now

WorkerResult(ok, exec_time) == [success |-> ok, execution_time |-> exec_time]

\* absent key of self.results
NoResult == [success |-> FALSE, execution_time |-> -1]

\* no WorkerTask object is alive for the id
NoTaskRecord == [priority |-> 0, created_at |-> -1, max_retries |-> 0]

\* values a submitter may put under "_max_retries" in the task data
RetryChoices == {0, 1}

NoOutcome == [kind |-> "none", success |-> FALSE]

Outcome(k, ok) == [kind |-> k, success |-> ok]

(* ------------------------------- Init ---------------------------------- *)
\* WorkerPool.__init__ and Worker.__init__
PoolInit ==
  /\ running = FALSE
  /\ max_workers \in PoolSizes
  /\ queue_size \in QueueSizes
  /\ task_queue = <<>>
  /\ unfinished_tasks = 0
  /\ putters = <<>>
  /\ results = [t \in TaskIds |-> NoResult]
  /\ task_futures = {}
  /\ future = [t \in TaskIds |-> "none"]
  /\ tasks = [t \in TaskIds |-> NoTaskRecord]
  /\ next_task_id = 1
  /\ worker_stats = [total_tasks |-> 0, completed_tasks |-> 0, failed_tasks |-> 0]
  /\ status = [w \in Workers |-> "idle"]
  /\ current_task = [w \in Workers |-> NoTask]
  /\ task_count = [w \in Workers |-> 0]
  /\ error_count = [w \in Workers |-> 0]
  /\ wpc = [w \in Workers |-> "new"]
  /\ wtask = [w \in Workers |-> NoTask]
  /\ attempt = [w \in Workers |-> 0]
  /\ start_time = [w \in Workers |-> 0]
  /\ sleep_for = [w \in Workers |-> 0]
  /\ rp_pc = "new"
  /\ rp_wake = 0
  /\ now = 0
  /\ rp_steps = 0
  /\ stop_pc = "idle"

CallerInit ==
  /\ cpc = [c \in Callers |-> "idle"]
  /\ ctask = [c \in Callers |-> NoTask]
  /\ cout = [c \in Callers |-> NoOutcome]

HistInit ==
  /\ accepted = {}
  /\ published = [t \in TaskIds |-> 0]
  /\ dequeued = [t \in TaskIds |-> 0]
  /\ done_marked = {}
  /\ failed_tasks = {}
  /\ pub_time = [t \in TaskIds |-> 0]
  /\ before_stop = {}
  /\ blocked = {}

\* task types whose handler calls the LLM executor, and the one whose handler
\* writes the product itself (normalize_categories)
LLMTaskTypes == {"meta_optimization"}

CategoryNormalization == "category_normalization"

\* a reply carries fields that map to product columns (update) and/or
\* "optimized_tags" (tags)
Replies == [update : BOOLEAN, tags : BOOLEAN]

NoReply == [update |-> FALSE, tags |-> FALSE]

\* batch_process_products not called yet
NoBatch ==
  [pc |-> "idle",            \* position of the coroutine
   total |-> 0,               \* len(product_ids); the ids are 1..total
   fan_i |-> 0,               \* index of the fan-out loop
   col_i |-> 0,               \* index of the collect loop
   task_futures |-> <<>>,     \* local list of (task_id, product_id)
   processed_count |-> 0,
   failed_count |-> 0,
   pipeline_run_id |-> 0,     \* 0 is None
   results |-> <<>>,          \* the returned list of per-product entries
   reply |-> NoReply,         \* result.result of the product being persisted
   orig_missing |-> FALSE,    \* original_product is None
   exc |-> "none",            \* call whose exception is propagating
   db_log |-> <<>>,           \* persistence calls that completed, in order
   broadcasts |-> <<>>,       \* processed + failed at each progress broadcast
   ok_products |-> {},        \* products whose result and persistence succeeded
   task_type |-> "none",      \* the task_type argument
   handler_writes |-> [t \in TaskIds |-> 0]]
                              \* update_product_details calls applied by the
                              \* handler runs of each task

NoRun == [status |-> "none", total |-> 0, processed |-> 0, failed |-> 0,
          completions |-> 0]

BatchInit ==
  /\ batch = NoBatch
  /\ pipeline_run = NoRun

\* _call_model_with_fallback not called yet
NoCall ==
  [pc |-> "idle",            \* "idle" | "calling" | "returned" | "raised" | "logged"
   task_type |-> "none",
   model |-> "none",          \* local `model`
   attempt |-> 0,             \* local `attempt`
   fallback_order |-> <<>>,   \* self.fallback_order
   result |-> {},             \* keys of the returned map
   blank |-> {},              \* those of its keys whose value is "" or null
   new |-> [keys |-> {}, blank |-> {}],
                              \* the `new` payload handed to log_change
   outcomes |-> <<>>]         \* outcomes of the generate calls made so far

\* get_best_model_for_task not called yet
NoSelect ==
  [pc |-> "idle",            \* "idle" | "probing" | "returned" | "raised"
   task_type |-> "none",
   capabilities |-> <<>>,     \* self.model_capabilities, in declaration order
   fallback_order |-> <<>>,   \* self.fallback_order
   loop |-> "none",           \* which of the two loops is running
   i |-> 0,                   \* position in that loop
   result |-> "none",         \* the returned model name
   probes |-> <<>>]           \* <<model, available>> of each probe made so far

\* a broadcast call that has not started
NoBroadcast ==
  [pc |-> "idle",            \* "idle" | "sending" | "done"
   idx |-> 0,                 \* elements the list iterator has passed
   connection |-> 0,          \* loop variable: the socket being sent to
   disconnected |-> <<>>,     \* local list `disconnected`
   attempted |-> {},          \* sockets whose send_json was awaited
   failed |-> {},             \* sockets put on `disconnected`
   stayed |-> {}]             \* sockets in the list since the call began

\* ConnectionManager.__init__: the channel exists and is empty
WsInit ==
  ws = [active_connections |-> <<>>,
        closed |-> {},        \* sockets whose client_state is not CONNECTED
        known |-> {},         \* sockets that were ever connected
        calls |-> [b \in Broadcasts |-> NoBroadcast]]

\* a string, by what is_valid_taxonomy looks at: the length and the number
\* of whitespace-separated tokens of its stripped text, whether that text
\* begins (case-insensitively) with one of the natural-language prefixes,
\* the whitespace around it, and which text it is
Str(id, len, words, prefix, pad) ==
  [id |-> id, len |-> len, words |-> words, prefix |-> prefix, pad |-> pad]

\* ""
EmptyStr == Str("", 0, 0, FALSE, 0)

\* normalize_product_type not called yet
NoGate == [pc |-> "idle", template |-> FALSE, candidate |-> EmptyStr,
           product_type |-> EmptyStr, title |-> EmptyStr, result |-> EmptyStr]

ExecInit == exec = NoCall /\ sel = NoSelect /\ WsInit /\ gate = NoGate

Init == PoolInit /\ CallerInit /\ BatchInit /\ HistInit /\ ExecInit

(* ----------------------------- WorkerPool ------------------------------ *)
\* task_id in self.results
InResults(t) == results[t] # NoResult

\* a queue built without maxsize is never full
QueueFull_unbounded == FALSE

\* asyncio.Queue.full()
QueueFull == Len(task_queue) >= queue_size

\* asyncio.Queue._get() (FIFO deque, popleft): the item get() hands to a worker
NextItem(q) == Head(q)

\* asyncio.Queue._get(): the queue without that item
RemoveItem(q) == Tail(q)

\* asyncio.Queue._put(): the queue after put_nowait(item)
PutItem(q, t) == Append(q, t)

\* a pool whose worker list has one worker too many
PoolWorkers_extra == 1..Min(max_workers + 1, MaxWorkers)

\* self.workers: `for i in range(max_workers)` of __init__
PoolWorkers == 1..max_workers

\* the loop tasks start() created run in creation order (the worker loops, then
\* the result processor) before any other coroutine resumes: Booting holds from
\* the first of them to the last
Booting == rp_pc = "start" /\ \E w \in PoolWorkers : wpc[w] # "start"

\* start(): set running, schedule the worker loops and the result processor
Start ==
  /\ UNCHANGED <<configVars, managerVars>>
  /\ rp_pc = "new"
  /\ running' = TRUE
  /\ wpc' = [w \in Workers |-> IF w \in PoolWorkers THEN "start" ELSE "new"]
  /\ rp_pc' = "start"
  /\ UNCHANGED <<stop_pc, queueVars, futVars, taskVars, worker_stats, status,
                 current_task, task_count, error_count, wtask, attempt,
                 start_time, sleep_for, rp_wake, now, rp_steps>>
  /\ UNCHANGED <<batchVars, callerVars, histVars>>

\* stop(): clear running, then await task_queue.join()
Stop ==
  /\ UNCHANGED <<configVars, managerVars>>
  /\ ~Booting
  /\ rp_pc # "new"
  /\ stop_pc = "idle"
  /\ running' = FALSE
  /\ stop_pc' = IF unfinished_tasks = 0 THEN "returned" ELSE "joining"
  /\ before_stop' = accepted
  /\ UNCHANGED <<queueVars, futVars, taskVars, worker_stats, workerVars, rpVars>>
  /\ UNCHANGED <<batchVars, callerVars, accepted, published, dequeued, done_marked,
                 failed_tasks, pub_time, blocked>>

\* stop(): task_queue.join() returns once every put item was marked done
StopReturn ==
  /\ UNCHANGED <<configVars, managerVars>>
  /\ ~Booting
  /\ stop_pc = "joining"
  /\ unfinished_tasks = 0
  /\ stop_pc' = "returned"
  /\ UNCHANGED <<running, queueVars, futVars, taskVars, worker_stats,
                 workerVars, rpVars>>
  /\ UNCHANGED <<batchVars, callerVars, histVars>>

\* submit_task up to `await self.task_queue.put(...)`: the new task, its future
Register(t, prio, retries) ==
  /\ tasks' = [tasks EXCEPT ![t] = [priority |-> prio, created_at |-> current_time,
                                    max_retries |-> retries]]
  /\ future' = [future EXCEPT ![t] = "pending"]
  /\ task_futures' = task_futures \cup {t}
  /\ next_task_id' = t + 1

\* submit_task from the moment put() completes: the item is queued and counted
Enqueue(t) ==
  /\ task_queue' = PutItem(task_queue, t)
  /\ unfinished_tasks' = unfinished_tasks + 1
  /\ worker_stats' = [worker_stats EXCEPT !.total_tasks = @ + 1]
  /\ accepted' = accepted \cup {t}

\* submit_task called by a client of the pool (RuntimeError unless running);
\* put() completes at once unless the queue is full
SubmitTask(prio, retries) ==
  /\ UNCHANGED <<configVars, managerVars>>
  /\ ~Booting
  /\ next_task_id <= MaxTasks
  /\ running
  /\ Register(next_task_id, prio, retries)
  /\ IF QueueFull
       THEN /\ putters' = Append(putters, next_task_id)
            /\ blocked' = blocked \cup {next_task_id}
            /\ UNCHANGED <<task_queue, unfinished_tasks, worker_stats, accepted>>
       ELSE /\ Enqueue(next_task_id)
            /\ UNCHANGED <<putters, blocked>>
  /\ UNCHANGED <<running, stop_pc, results, workerVars, rpVars>>
  /\ UNCHANGED <<batchVars, callerVars, published, dequeued, done_marked, failed_tasks,
                 pub_time, before_stop>>

\* a put() suspended on a full queue resumes when there is room
PutResume ==
  /\ UNCHANGED <<configVars, managerVars>>
  /\ ~Booting
  /\ putters # <<>>
  /\ ~QueueFull
  /\ Enqueue(Head(putters))
  /\ putters' = Tail(putters)
  /\ UNCHANGED <<running, stop_pc, futVars, taskVars, workerVars, rpVars>>
  /\ UNCHANGED <<batchVars, callerVars, published, dequeued, done_marked, failed_tasks,
                 pub_time, before_stop, blocked>>

(* ------------------------------- Worker -------------------------------- *)
\* `while self.running` of _worker_loop, evaluated when the loop comes round
LoopTest == IF running THEN "get" ELSE "exited"

\* Future.set_result / set_exception raise InvalidStateError unless pending
Resolvable(t) == future[t] = "pending"

\* process_task's `finally` and _worker_loop after process_task returned:
\* publish the result, resolve the future, task_done; back to the loop test
Publish(w, t, res) ==
  /\ results' = [results EXCEPT ![t] = res]
  /\ worker_stats' = IF res.success
       THEN [worker_stats EXCEPT !.completed_tasks = @ + 1]
       ELSE [worker_stats EXCEPT !.failed_tasks = @ + 1]
  /\ published' = [published EXCEPT ![t] = @ + 1]
  /\ pub_time' = [pub_time EXCEPT ![t] = now]
  /\ failed_tasks' = IF res.success THEN failed_tasks ELSE failed_tasks \cup {t}
  /\ current_task' = [current_task EXCEPT ![w] = NoTask]
  /\ wpc' = [wpc EXCEPT ![w] = LoopTest]
  \* the WorkerTask and the locals of process_task are dead from here on
  /\ tasks' = [tasks EXCEPT ![t] = NoTaskRecord]
  /\ wtask' = [wtask EXCEPT ![w] = NoTask]
  /\ attempt' = [attempt EXCEPT ![w] = 0]
  /\ start_time' = [start_time EXCEPT ![w] = 0]
  /\ IF t \in task_futures /\ ~Resolvable(t)
       THEN \* set_result raised: `except Exception` sets ERROR, task_done is skipped
            /\ status' = [status EXCEPT ![w] = "error"]
            /\ UNCHANGED <<future, task_futures, unfinished_tasks, done_marked>>
       ELSE /\ status' = [status EXCEPT ![w] = "idle"]
            /\ future' = IF t \in task_futures
                 THEN [future EXCEPT ![t] = IF res.success THEN "result" ELSE "exception"]
                 ELSE future
            /\ task_futures' = task_futures \ {t}
            /\ unfinished_tasks' = unfinished_tasks - 1
            /\ done_marked' = done_marked \cup {t}

\* the worker loop starts running
WorkerLoopStart(w) ==
  /\ UNCHANGED <<configVars, managerVars>>
  /\ \A v \in Workers : v < w => wpc[v] # "start"
  /\ wpc[w] = "start"
  /\ wpc' = [wpc EXCEPT ![w] = LoopTest]
  /\ UNCHANGED <<running, stop_pc, queueVars, futVars, taskVars, worker_stats,
                 status, current_task, task_count, error_count, wtask, attempt,
                 start_time, sleep_for, rpVars>>
  /\ UNCHANGED <<batchVars, callerVars, histVars>>

\* task_queue.get() returns an item; process_task runs up to the handler call
WorkerGet(w) ==
  /\ UNCHANGED <<configVars, managerVars>>
  /\ wpc[w] = "get"
  /\ task_queue # <<>>
  /\ LET t == NextItem(task_queue) IN
     /\ task_queue' = RemoveItem(task_queue)
     /\ wtask' = [wtask EXCEPT ![w] = t]
     /\ attempt' = [attempt EXCEPT ![w] = 0]
     /\ start_time' = [start_time EXCEPT ![w] = current_time]
     /\ dequeued' = [dequeued EXCEPT ![t] = @ + 1]
     /\ status' = [status EXCEPT ![w] = "busy"]
     /\ current_task' = [current_task EXCEPT ![w] = t]
     /\ wpc' = [wpc EXCEPT ![w] = "handler"]
  /\ UNCHANGED <<running, stop_pc, unfinished_tasks, putters, futVars, taskVars,
                 worker_stats, task_count, error_count, sleep_for, rpVars>>
  /\ UNCHANGED <<batchVars, callerVars, accepted, published, done_marked, failed_tasks,
                 pub_time, before_stop, blocked>>

\* the handler of task t is MultiModelSEOManager.normalize_categories
IsNormalize(t) == t # NoTask /\ batch.task_type = CategoryNormalization

\* the handler run that ends now applied update_product_details or not:
\* only normalize_categories writes, and it returns without writing only for
\* a product that has no category, so that no earlier run wrote either
HandlerWrote(t, returns) ==
  IF ~IsNormalize(t) THEN {FALSE}
  ELSE IF returns /\ batch.handler_writes[t] > 0 THEN {TRUE}
  ELSE BOOLEAN

HandlerEffect(t, returns) ==
  /\ \E wrote \in HandlerWrote(t, returns) :
       batch' = IF wrote THEN [batch EXCEPT !.handler_writes[t] = @ + 1] ELSE batch
  /\ UNCHANGED pipeline_run

\* the handler returns: successful WorkerResult
HandlerReturn(w) ==
  /\ UNCHANGED <<configVars, managerVars>>
  /\ wpc[w] = "handler"
  /\ task_count' = [task_count EXCEPT ![w] = @ + 1]
  /\ Publish(w, wtask[w], WorkerResult(TRUE, current_time - start_time[w]))
  /\ HandlerEffect(wtask[w], TRUE)
  /\ UNCHANGED <<running, stop_pc, task_queue, putters, next_task_id,
                 error_count, sleep_for, rpVars>>
  /\ UNCHANGED <<callerVars, accepted, dequeued, before_stop, blocked>>

\* a backoff that doubles from 2 seconds: min(2**(attempt + 1), 30)
wait_time_late(a) == Min(Pow2(a + 1), MaxBackoff)

\* min(2**attempt, 30)
wait_time(a) == Min(Pow2(a), MaxBackoff)

\* the handler raises: retry after a backoff, or failed WorkerResult
HandlerRaise(w) ==
  /\ UNCHANGED <<configVars, managerVars>>
  /\ wpc[w] = "handler"
  /\ IF attempt[w] < tasks[wtask[w]].max_retries
       THEN /\ wpc' = [wpc EXCEPT ![w] = "backoff"]
            /\ sleep_for' = [sleep_for EXCEPT ![w] = wait_time(attempt[w])]
            /\ UNCHANGED <<futVars, unfinished_tasks, worker_stats, status,
                           current_task, error_count, tasks, wtask, attempt,
                           start_time, published, pub_time, done_marked,
                           failed_tasks>>
       ELSE /\ error_count' = [error_count EXCEPT ![w] = @ + 1]
            /\ Publish(w, wtask[w], WorkerResult(FALSE, current_time - start_time[w]))
            /\ UNCHANGED sleep_for
  /\ HandlerEffect(wtask[w], FALSE)
  /\ UNCHANGED <<running, stop_pc, task_queue, putters, next_task_id,
                 task_count, rpVars>>
  /\ UNCHANGED <<callerVars, accepted, dequeued, before_stop, blocked>>

\* asyncio.sleep(wait_time) is over: the next attempt calls the handler again
BackoffWake(w) ==
  /\ UNCHANGED <<configVars, managerVars>>
  /\ wpc[w] = "backoff"
  /\ attempt' = [attempt EXCEPT ![w] = @ + 1]
  /\ sleep_for' = [sleep_for EXCEPT ![w] = 0]
  /\ wpc' = [wpc EXCEPT ![w] = "handler"]
  /\ UNCHANGED <<running, stop_pc, queueVars, futVars, taskVars, worker_stats,
                 status, current_task, task_count, error_count, wtask,
                 start_time, rpVars>>
  /\ UNCHANGED <<batchVars, callerVars, histVars>>

(* -------------------------- _result_processor -------------------------- *)
\* expired_tasks of _result_processor (ct: the time.time() it reads)
expired_tasks(ct) == {t \in TaskIds :
                        InResults(t) /\ ct - results[t].execution_time > ResultTTL}

\* _health_check, first test: a worker in ERROR is reset
ResetError(w) == status[w] = "error"

\* _health_check, second test (on the status the first test left): stuck worker
ResetStuck(w, ct) ==
  /\ (IF ResetError(w) THEN "idle" ELSE status[w]) = "busy"
  /\ current_task[w] # NoTask
  /\ ct - tasks[current_task[w]].created_at > StuckThreshold

\* the result processor starts running
ResultProcessorStart ==
  /\ UNCHANGED <<configVars, managerVars>>
  /\ \A w \in PoolWorkers : wpc[w] # "start"
  /\ rp_pc = "start"
  /\ rp_pc' = IF running THEN "sleeping" ELSE "exited"
  /\ rp_wake' = now + CleanupInterval
  /\ UNCHANGED <<running, stop_pc, queueVars, futVars, taskVars, worker_stats,
                 workerVars, now, rp_steps>>
  /\ UNCHANGED <<batchVars, callerVars, histVars>>

\* numbers of consecutive cycles one step of the result processor stands for
CycleRuns == {1, LongRun}

\* n consecutive cycles of _result_processor while every other coroutine stays
\* suspended: each sleep(10) ends with the clock at its deadline; eviction, then
\* _health_check, then the loop test. Cycles after the first need `running`;
\* eviction and the resets of a later cycle subsume those of the earlier ones,
\* so the n cycles have the effect of one cycle at the last deadline.
ResultProcessorCycle(n) ==
  /\ UNCHANGED <<configVars, managerVars>>
  /\ rp_pc = "sleeping"
  /\ rp_steps < MaxCycleSteps
  /\ rp_wake + (n - 1) * CleanupInterval <= MaxNow
  /\ n = 1 \/ running
  /\ rp_steps' = rp_steps + 1
  /\ LET last == rp_wake + (n - 1) * CleanupInterval
         ct == Epoch + last
     IN
     /\ now' = last
     /\ rp_wake' = last + CleanupInterval
     /\ results' = [t \in TaskIds |->
                      IF t \in expired_tasks(ct) THEN NoResult ELSE results[t]]
     /\ pub_time' = [t \in TaskIds |->
                       IF t \in expired_tasks(ct) THEN 0 ELSE pub_time[t]]
     /\ status' = [w \in Workers |->
                     IF ResetError(w) \/ ResetStuck(w, ct) THEN "idle" ELSE status[w]]
     /\ error_count' = [w \in Workers |-> IF ResetError(w) THEN 0 ELSE error_count[w]]
     /\ current_task' = [w \in Workers |->
                           IF ResetStuck(w, ct) THEN NoTask ELSE current_task[w]]
  /\ rp_pc' = IF running THEN "sleeping" ELSE "exited"
  /\ UNCHANGED <<running, stop_pc, queueVars, task_futures, future, taskVars,
                 worker_stats, task_count, wpc, wtask, attempt, start_time,
                 sleep_for>>
  /\ UNCHANGED <<batchVars, callerVars, accepted, published, dequeued, done_marked,
                 failed_tasks, before_stop, blocked>>

(* ------------------------------ get_result ----------------------------- *)
\* get_result up to its first suspension: the cached result, ValueError, or
\* wait_for on the future ("wait"; wait_for on a cancelled future raises
\* CancelledError at once)
get_result(t) ==
  IF t \notin TaskIds THEN Outcome("not_found", FALSE)
  ELSE IF InResults(t) THEN Outcome("result", results[t].success)
  ELSE IF t \notin task_futures THEN Outcome("not_found", FALSE)
  ELSE IF future[t] = "cancelled" THEN Outcome("cancelled", FALSE)
  ELSE Outcome("wait", FALSE)

\* what `await asyncio.wait_for(future, ...)` gives once the future is resolved:
\* set_result -> the WorkerResult; set_exception -> raises Exception(result.error)
future_outcome(t) ==
  IF future[t] = "result" THEN Outcome("result", TRUE)
  ELSE IF future[t] = "exception" THEN Outcome("exception", FALSE)
  ELSE Outcome("cancelled", FALSE)

\* ids a client can pass: those submit_task returned so far, or a string that
\* is no task id (uuid4 ids cannot be guessed ahead)
KnownIds == {t \in TaskIds : t < next_task_id} \cup {NoTask}

\* a client calls get_result(task_id, timeout)
GetResultCall(c, t) ==
  /\ UNCHANGED <<configVars, managerVars>>
  /\ ~Booting
  /\ cpc[c] = "idle"
  /\ rp_pc # "new"
  /\ t \in KnownIds
  /\ LET o == get_result(t) IN
     IF o.kind = "wait"
       THEN /\ cpc' = [cpc EXCEPT ![c] = "waiting"]
            /\ cout' = [cout EXCEPT ![c] = NoOutcome]
       ELSE /\ cout' = [cout EXCEPT ![c] = o]
            /\ UNCHANGED cpc
  /\ ctask' = [ctask EXCEPT ![c] = t]
  /\ UNCHANGED <<poolVars, batchVars, histVars>>

\* the awaited future was resolved (or cancelled by another waiter's timeout)
GetResultWake(c) ==
  /\ UNCHANGED <<configVars, managerVars>>
  /\ ~Booting
  /\ cpc[c] = "waiting"
  /\ future[ctask[c]] # "pending"
  /\ cout' = [cout EXCEPT ![c] = future_outcome(ctask[c])]
  /\ cpc' = [cpc EXCEPT ![c] = "idle"]
  /\ UNCHANGED <<poolVars, batchVars, ctask, histVars>>

\* wait_for times out: it cancels the future and raises TimeoutError
GetResultTimeout(c) ==
  /\ UNCHANGED <<configVars, managerVars>>
  /\ ~Booting
  /\ cpc[c] = "waiting"
  /\ future[ctask[c]] = "pending"
  /\ future' = [future EXCEPT ![ctask[c]] = "cancelled"]
  /\ cout' = [cout EXCEPT ![c] = Outcome("timeout", FALSE)]
  /\ cpc' = [cpc EXCEPT ![c] = "idle"]
  /\ UNCHANGED <<running, stop_pc, queueVars, results, task_futures, taskVars,
                 worker_stats, workerVars, rpVars>>
  /\ UNCHANGED <<batchVars, ctask, histVars>>

(* ----------------------- batch_process_products ------------------------ *)
Entry(pid, st, err) == [product_id |-> pid, status |-> st, error |-> err]

CurrentTask(b) == b.task_futures[b.col_i][1]

\* the product id the fan-out loop left behind, not the pair's
CurrentProduct_last(b) == b.task_futures[Len(b.task_futures)][2]

CurrentProduct(b) == b.task_futures[b.col_i][2]

\* the broadcast test after each consumed result
ShouldBroadcast(b) ==
  \/ (b.processed_count + b.failed_count) % ProgressEvery = 0
  \/ (b.processed_count + b.failed_count) = b.total

\* after the try/except of one product: progress broadcast, then
\* `await update_pipeline_run`
AfterProduct(b) ==
  [b EXCEPT !.pc = "update_run",
            !.broadcasts = IF ShouldBroadcast(b)
                             THEN Append(@, b.processed_count + b.failed_count)
                             ELSE @,
            !.reply = NoReply,
            !.orig_missing = FALSE]

\* a failure that is recorded while the product's remaining steps still run
Failed_continue(b, st, err) ==
  [b EXCEPT !.failed_count = @ + 1,
            !.results = Append(@, [product_id |-> b.task_futures[b.col_i][2],
                                   status |-> st, error |-> err]),
            !.pc = "persist_log"]

\* the failure branches: `else` of result.success, except TimeoutError,
\* except Exception
Failed(b, st, err) ==
  AfterProduct([b EXCEPT !.failed_count = @ + 1,
                         !.results = Append(@, Entry(CurrentProduct(b), st, err))])

\* result.success: count, record, then `await get_product_details`
Succeeded(b) ==
  [b EXCEPT !.processed_count = @ + 1,
            !.results = Append(@, Entry(CurrentProduct(b), "success", "")),
            !.pc = "persist_fetch"]

\* an exception leaves the outer try: the `finally` awaits complete_pipeline_run
Unwind(b, src) == [b EXCEPT !.pc = "finalize", !.exc = src]

\* what the collect loop does with the outcome of get_result
\* (CancelledError is no Exception: it leaves the loop)
Consume(b, o) ==
  IF o.kind = "wait" THEN [b EXCEPT !.pc = "waiting"]
  ELSE IF o.kind = "result"
    THEN IF o.success THEN Succeeded(b) ELSE Failed(b, "error", "result_error")
  ELSE IF o.kind = "cancelled" THEN Unwind(b, "cancelled")
  ELSE Failed(b, "error", o.kind)

\* get_result for pair k of the list, when the coordinator reaches it without
\* suspending (fresh: the task submitted in the same step)
GetResultFor(list, k, fresh) ==
  IF k > Len(list) THEN NoOutcome
  ELSE IF list[k][1] \in fresh THEN Outcome("wait", FALSE)
  ELSE get_result(list[k][1])

\* the collect loop reaches pair k, or `return results` when the list is done
Collect(b, k, o) ==
  IF k > Len(b.task_futures)
    THEN [b EXCEPT !.pc = "finalize"]
    ELSE Consume([b EXCEPT !.col_i = k], o)

\* the fan-out loop goes on to the next product id, or the collect loop starts
FanoutAdvance(b, o) ==
  IF b.fan_i < b.total
    THEN [b EXCEPT !.fan_i = @ + 1, !.pc = "fanout"]
    ELSE Collect(b, 1, o)

\* after update_product_details: tags if the reply has optimized_tags
\* (dict(original_product) raises TypeError when the product is gone)
AfterTags(b) ==
  IF b.orig_missing THEN Failed(b, "error", "persistence")
  ELSE [b EXCEPT !.pc = "persist_log"]

AfterUpdate(b) ==
  IF b.reply.tags THEN [b EXCEPT !.pc = "persist_tags"] ELSE AfterTags(b)

AfterFetch(b) ==
  IF b.reply.update THEN [b EXCEPT !.pc = "persist_update"] ELSE AfterUpdate(b)

Logged(b, step) == [b EXCEPT !.db_log = Append(@, <<CurrentProduct(b), step>>)]

\* status passed to complete_pipeline_run
FinalStatus(b) == IF b.failed_count = 0 THEN "COMPLETED" ELSE "FAILED"

\* batch_process_products(product_ids, task_type) is called
BatchBegin(n, ty) ==
  /\ UNCHANGED <<configVars, managerVars>>
  /\ ~Booting
  /\ batch.pc = "idle"
  /\ rp_pc # "new"
  /\ batch' = [NoBatch EXCEPT !.pc = "create_run", !.total = n, !.task_type = ty]
  /\ UNCHANGED <<poolVars, callerVars, pipeline_run, histVars>>

\* create_pipeline_run returns or raises
CreateRun(ok) ==
  /\ UNCHANGED <<configVars, managerVars>>
  /\ ~Booting
  /\ batch.pc = "create_run"
  /\ IF ok
       THEN /\ pipeline_run' = [NoRun EXCEPT !.status = "RUNNING", !.total = batch.total]
            /\ batch' = IF batch.total = 0
                 THEN [batch EXCEPT !.pipeline_run_id = 1, !.pc = "finalize"]
                 ELSE [batch EXCEPT !.pipeline_run_id = 1, !.pc = "fanout", !.fan_i = 1]
       ELSE /\ batch' = [batch EXCEPT !.pc = "raised", !.exc = "create_run"]
            /\ UNCHANGED pipeline_run
  /\ UNCHANGED <<poolVars, callerVars, histVars>>

\* fan-out: get_product_details finds no product: the id is skipped
FanoutNone ==
  /\ UNCHANGED <<configVars, managerVars>>
  /\ ~Booting
  /\ batch.pc = "fanout"
  /\ batch' = FanoutAdvance(batch, GetResultFor(batch.task_futures, 1, {}))
  /\ UNCHANGED <<poolVars, callerVars, pipeline_run, histVars>>

\* fan-out: get_product_details raises
FanoutRaise ==
  /\ UNCHANGED <<configVars, managerVars>>
  /\ ~Booting
  /\ batch.pc = "fanout"
  /\ batch' = Unwind(batch, "fanout_fetch")
  /\ UNCHANGED <<poolVars, callerVars, pipeline_run, histVars>>

\* fan-out: the product is found and submit_task is called
FanoutSubmit ==
  /\ UNCHANGED <<configVars, managerVars>>
  /\ ~Booting
  /\ batch.pc = "fanout"
  /\ next_task_id <= MaxTasks
  /\ IF ~running
       THEN /\ batch' = Unwind(batch, "submit")
            /\ UNCHANGED <<queueVars, futVars, taskVars, worker_stats, accepted, blocked>>
       ELSE LET t == next_task_id
                list == Append(batch.task_futures, <<t, batch.fan_i>>)
            IN
            /\ Register(t, BatchPriority, DefaultMaxRetries)
            /\ UNCHANGED results
            /\ IF QueueFull
                 THEN /\ putters' = Append(putters, t)
                      /\ blocked' = blocked \cup {t}
                      /\ batch' = [batch EXCEPT !.pc = "submit_blocked"]
                      /\ UNCHANGED <<task_queue, unfinished_tasks, worker_stats, accepted>>
                 ELSE /\ Enqueue(t)
                      /\ UNCHANGED <<putters, blocked>>
                      /\ batch' = FanoutAdvance([batch EXCEPT !.task_futures = list],
                                                GetResultFor(list, 1, {t}))
  /\ UNCHANGED <<running, stop_pc, workerVars, rpVars>>
  /\ UNCHANGED <<callerVars, pipeline_run, published, dequeued, done_marked,
                 failed_tasks, pub_time, before_stop>>

\* fan-out: the suspended put() has completed, submit_task returns
SubmitResume ==
  /\ UNCHANGED <<configVars, managerVars>>
  /\ ~Booting
  /\ batch.pc = "submit_blocked"
  /\ LET t == next_task_id - 1
         list == Append(batch.task_futures, <<t, batch.fan_i>>)
     IN
     /\ \A i \in 1..Len(putters) : putters[i] # t
     /\ batch' = FanoutAdvance([batch EXCEPT !.task_futures = list],
                               GetResultFor(list, 1, {}))
  /\ UNCHANGED <<poolVars, callerVars, pipeline_run, histVars>>

\* collect: the awaited future is resolved
BatchWake ==
  /\ UNCHANGED <<configVars, managerVars>>
  /\ ~Booting
  /\ batch.pc = "waiting"
  /\ future[CurrentTask(batch)] # "pending"
  /\ batch' = Consume(batch, future_outcome(CurrentTask(batch)))
  /\ UNCHANGED <<poolVars, callerVars, pipeline_run, histVars>>

\* collect: wait_for times out (settings.workers.timeout): future cancelled
BatchTimeout ==
  /\ UNCHANGED <<configVars, managerVars>>
  /\ ~Booting
  /\ batch.pc = "waiting"
  /\ future[CurrentTask(batch)] = "pending"
  /\ future' = [future EXCEPT ![CurrentTask(batch)] = "cancelled"]
  /\ batch' = Failed(batch, "timeout", "Task timed out")
  /\ UNCHANGED <<running, stop_pc, queueVars, results, task_futures, taskVars,
                 worker_stats, workerVars, rpVars>>
  /\ UNCHANGED <<callerVars, pipeline_run, histVars>>

\* result.result of a successful task: the normalize_categories handler
\* returns the category fields iff it wrote them, and never tags
ReplyOf(b, r) ==
  IF b.task_type = CategoryNormalization
    THEN r = [update |-> b.handler_writes[CurrentTask(b)] > 0, tags |-> FALSE]
    ELSE r \in Replies

\* persistence: get_product_details for the "old" snapshot
PersistFetch(out, r) ==
  /\ UNCHANGED <<configVars, managerVars>>
  /\ ~Booting
  /\ batch.pc = "persist_fetch"
  /\ ReplyOf(batch, r)
  /\ batch' = IF out = "raise"
       THEN Failed(batch, "error", "persistence")
       ELSE AfterFetch([Logged(batch, "fetch") EXCEPT !.reply = r,
                                                      !.orig_missing = (out = "none")])
  /\ UNCHANGED <<poolVars, callerVars, pipeline_run, histVars>>

\* persistence: update_product_details returns or raises
PersistUpdate(ok) ==
  /\ UNCHANGED <<configVars, managerVars>>
  /\ ~Booting
  /\ batch.pc = "persist_update"
  /\ batch' = IF ok THEN AfterUpdate(Logged(batch, "update"))
                    ELSE Failed(batch, "error", "persistence")
  /\ UNCHANGED <<poolVars, callerVars, pipeline_run, histVars>>

\* persistence: update_product_tags returns or raises
PersistTags(ok) ==
  /\ UNCHANGED <<configVars, managerVars>>
  /\ ~Booting
  /\ batch.pc = "persist_tags"
  /\ batch' = IF ok THEN AfterTags(Logged(batch, "tags"))
                    ELSE Failed(batch, "error", "persistence")
  /\ UNCHANGED <<poolVars, callerVars, pipeline_run, histVars>>

\* persistence: log_change returns or raises
PersistLog(ok) ==
  /\ UNCHANGED <<configVars, managerVars>>
  /\ ~Booting
  /\ batch.pc = "persist_log"
  /\ batch' = IF ok
       THEN AfterProduct([Logged(batch, "log") EXCEPT
                            !.ok_products = @ \cup {CurrentProduct(batch)}])
       ELSE Failed(batch, "error", "persistence")
  /\ UNCHANGED <<poolVars, callerVars, pipeline_run, histVars>>

\* update_pipeline_run returns or raises; then the next pair, or return
UpdateRun(ok) ==
  /\ UNCHANGED <<configVars, managerVars>>
  /\ ~Booting
  /\ batch.pc = "update_run"
  /\ IF ok
       THEN /\ pipeline_run' = [pipeline_run EXCEPT
                                  !.processed = batch.processed_count,
                                  !.failed = batch.failed_count]
            /\ batch' = Collect(batch, batch.col_i + 1,
                                GetResultFor(batch.task_futures, batch.col_i + 1, {}))
       ELSE /\ batch' = Unwind(batch, "update_run")
            /\ UNCHANGED pipeline_run
  /\ UNCHANGED <<poolVars, callerVars, histVars>>

\* finally: complete_pipeline_run returns or raises; the call then returns
\* results, or the propagating exception goes on to the caller
Finalize(ok) ==
  /\ UNCHANGED <<configVars, managerVars>>
  /\ ~Booting
  /\ batch.pc = "finalize"
  /\ IF ok
       THEN /\ pipeline_run' = [pipeline_run EXCEPT
                                  !.status = FinalStatus(batch),
                                  !.processed = batch.processed_count,
                                  !.failed = batch.failed_count,
                                  !.completions = @ + 1]
            /\ batch' = [batch EXCEPT !.pc = IF batch.exc = "none" THEN "returned"
                                                                   ELSE "raised"]
       ELSE /\ batch' = [batch EXCEPT !.pc = "raised",
                                      !.exc = IF @ = "none" THEN "finalize" ELSE @]
            /\ UNCHANGED pipeline_run
  /\ UNCHANGED <<poolVars, callerVars, histVars>>

(* ---------------------------- specification ---------------------------- *)
WorkerStep ==
  \E w \in Workers :
    \/ WorkerLoopStart(w)
    \/ WorkerGet(w)
    \/ HandlerReturn(w)
    \/ HandlerRaise(w)
    \/ BackoffWake(w)

PoolStep ==
  \/ Start
  \/ Stop
  \/ StopReturn
  \/ PutResume
  \/ WorkerStep
  \/ ResultProcessorStart
  \/ \E n \in CycleRuns : ResultProcessorCycle(n)

ClientStep ==
  \/ \E prio \in Priorities, retries \in RetryChoices : SubmitTask(prio, retries)
  \/ \E c \in Callers, t \in TaskIds \cup {NoTask} : GetResultCall(c, t)
  \/ \E c \in Callers : GetResultWake(c)
  \/ \E c \in Callers : GetResultTimeout(c)

Next == PoolStep \/ ClientStep

\* the pool under arbitrary clients
Spec == Init /\ [][Next]_vars

\* the steps every batch run can take
BatchRun ==
  \/ \E ok \in BOOLEAN : CreateRun(ok)
  \/ FanoutNone
  \/ FanoutRaise
  \/ FanoutSubmit
  \/ SubmitResume
  \/ BatchWake
  \/ BatchTimeout
  \/ \E out \in {"found", "none", "raise"}, r \in Replies : PersistFetch(out, r)
  \/ \E ok \in BOOLEAN : PersistUpdate(ok)
  \/ \E ok \in BOOLEAN : PersistLog(ok)
  \/ \E ok \in BOOLEAN : UpdateRun(ok)
  \/ \E ok \in BOOLEAN : Finalize(ok)

BatchStep ==
  \/ \E n \in 0..MaxProducts, ty \in LLMTaskTypes : BatchBegin(n, ty)
  \/ BatchRun
  \/ \E ok \in BOOLEAN : PersistTags(ok)

BatchNext == PoolStep \/ BatchStep

\* the pool with the batch coordinator as its client, for the task types
\* served by the LLM executor
BatchSpec == Init /\ [][BatchNext]_vars

NormStep ==
  \/ \E n \in 0..MaxProducts : BatchBegin(n, CategoryNormalization)
  \/ BatchRun

NormNext == PoolStep \/ NormStep

\* a pool of one worker with a queue of one slot
NormInit == Init /\ max_workers = 1 /\ queue_size = 1

\* the pool with the batch coordinator as its client, for
\* category_normalization, whose replies never carry tags
NormSpec == NormInit /\ [][NormNext]_vars

(* ---------------------- _call_model_with_fallback ---------------------- *)
\* the values of TaskType
TaskTypes == {"meta_optimization", "content_rewriting", "keyword_analysis",
              "schema_analysis", "category_normalization", "tag_optimization"}

Models == {"m1", "m2"}

\* settings.model_capabilities.fallback_order
FallbackOrders == {<<>>, <<"m1">>, <<"m1", "m2">>, <<"m2", "m1">>, <<"m1", "m1">>}

\* what one POST to /api/generate can come to
GenerateOutcomes == {"transport", "non2xx", "unparsable", "empty", "missing",
                     "complete", "blank"}

Range(q) == {q[i] : i \in 1..Len(q)}

\* required_fields.get(task_type, []) of _validate_response
required_fields(ty) ==
  CASE ty = "meta_optimization" -> <<"meta_title", "meta_description", "seo_keywords">>
    [] ty = "content_rewriting" -> <<"optimized_title", "optimized_description">>
    [] ty = "keyword_analysis" -> <<"primary_keywords", "long_tail_keywords">>
    [] ty = "tag_optimization" -> <<"optimized_tags", "removed_tags", "added_tags">>
    [] ty = "schema_analysis" -> <<"schema_compliance", "issues">>
    [] OTHER -> <<>>

\* all(field in response for field in required)
validate_response(response, ty) == \A f \in Range(required_fields(ty)) : f \in response

\* keys of the map _rule_based_fallback returns
rule_based_fallback(ty) ==
  CASE ty = "meta_optimization" ->
         {"meta_title", "meta_description", "seo_keywords", "fallback_used"}
    [] ty = "content_rewriting" ->
         {"optimized_title", "optimized_description", "content_score",
          "improvements", "fallback_used"}
    [] ty = "keyword_analysis" ->
         {"primary_keywords", "long_tail_keywords", "competitor_terms",
          "difficulty_estimate", "fallback_used"}
    [] ty = "tag_optimization" ->
         {"optimized_tags", "removed_tags", "added_tags", "tag_analysis",
          "fallback_used"}
    [] ty = "schema_analysis" -> {"schema_compliance", "issues", "fallback_used"}
    [] OTHER -> {"error", "fallback_used"}

\* the exception _call_ollama_model raises, "" when it returns
Raised(out) ==
  CASE out = "transport" -> "httpx.TransportError"
    [] out = "non2xx" -> "Exception"
    [] OTHER -> ""

\* a handler that only catches transport errors
ExceptException_transport(cls) == cls = "httpx.TransportError"

\* `except Exception`: the classes it catches
ExceptException(cls) == cls \in {"Exception", "httpx.TransportError"}

\* keys of the map _parse_model_response returns
parse_model_response(out, ty) ==
  CASE out = "unparsable" -> {"raw_response", "error"}
    [] out = "empty" -> {}
    [] out = "missing" -> IF required_fields(ty) = <<>> THEN {"note"}
                          ELSE Range(Tail(required_fields(ty))) \cup {"note"}
    [] out = "complete" -> Range(required_fields(ty)) \cup {"note"}
    [] out = "blank" -> Range(required_fields(ty)) \cup {"note"}

\* the keys of that map whose value is empty: a "blank" reply has every
\* required key, the first of them with the value ""
blank_values(out, ty) ==
  IF out = "blank" /\ required_fields(ty) # <<>> THEN {Head(required_fields(ty))} ELSE {}

\* [m for m in self.fallback_order if m != current_model]
next_models(order, current_model) == SelectSeq(order, LAMBDA m : m # current_model)

\* _call_model_with_fallback(model, prompt, task_type) is called; max_retries
\* keeps its default, so the first generate call is made
CallBegin(m, ty, order) ==
  /\ exec.pc = "idle"
  /\ exec' = [NoCall EXCEPT !.pc = "calling", !.model = m, !.task_type = ty,
                            !.fallback_order = order]
  /\ UNCHANGED <<configVars, poolVars, callerVars, batchVars, histVars, sel, ws, gate>>

\* one generate call ends: the rest of the loop body, up to the next call or
\* to the return
Generate(out) ==
  /\ exec.pc = "calling"
  /\ LET ty == exec.task_type
         result == parse_model_response(out, ty)
         e == [exec EXCEPT !.outcomes = Append(@, out)]
         nm == next_models(exec.fallback_order, exec.model)
     IN exec' =
          IF Raised(out) # "" /\ ~ExceptException(Raised(out))
            THEN [e EXCEPT !.pc = "raised"]
          ELSE IF Raised(out) = "" /\ result # {} /\ validate_response(result, ty)
            THEN [e EXCEPT !.pc = "returned", !.result = result,
                           !.blank = blank_values(out, ty)]
          ELSE IF nm # <<>> /\ exec.attempt + 1 < ExecMaxRetries
            THEN [e EXCEPT !.model = nm[1], !.attempt = @ + 1]
          ELSE [e EXCEPT !.pc = "returned", !.result = rule_based_fallback(ty)]
  /\ UNCHANGED <<configVars, poolVars, callerVars, batchVars, histVars, sel, ws, gate>>

\* the coordinator's log_change(product_id, field=task_type.value, old=...,
\* new=result.result, ...) for the reply the handler returned
LogChange ==
  /\ exec.pc = "returned"
  /\ exec' = [exec EXCEPT !.pc = "logged",
                          !.new = [keys |-> exec.result, blank |-> exec.blank]]
  /\ UNCHANGED <<configVars, poolVars, callerVars, batchVars, histVars, sel, ws, gate>>

ExecNext ==
  \/ \E m \in Models, ty \in TaskTypes, order \in FallbackOrders : CallBegin(m, ty, order)
  \/ \E out \in GenerateOutcomes : Generate(out)
  \/ LogChange

\* one call of the executor under every sequence of generate outcomes
ExecSpec == Init /\ [][ExecNext]_vars

(* ----------------------- get_best_model_for_task ----------------------- *)
\* task types a model may declare, and the ones asked for
SelectTaskTypes == {"meta_optimization", "tag_optimization"}

\* self.model_capabilities: model name -> tasks, names distinct, in
\* declaration order
CapabilityMaps ==
  {<<>>} \cup
  {<<[name |-> m, tasks |-> ts]>> : m \in Models, ts \in SUBSET SelectTaskTypes} \cup
  {<<[name |-> "m1", tasks |-> t1], [name |-> "m2", tasks |-> t2]>> :
     t1 \in {{}, {"meta_optimization"}}, t2 \in {{}, {"meta_optimization"}}} \cup
  {<<[name |-> "m2", tasks |-> t2], [name |-> "m1", tasks |-> t1]>> :
     t1 \in {{}, {"meta_optimization"}}, t2 \in {{}, {"meta_optimization"}}}

\* what the two requests of _check_model_availability can come to
ProbeOutcomes == {"listed", "unlisted_generate_200", "unlisted_generate_500",
                  "tags_500_generate_200", "tags_500_generate_500", "error"}

\* _check_model_availability: listed under /api/tags, or else the test
\* generation answers 200; any exception is False
check_model_availability(out) ==
  out \in {"listed", "unlisted_generate_200", "tags_500_generate_200"}

\* the next position after i, whatever the model declares
NextDeclaring_any(caps, ty, i) ==
  IF i + 1 <= Len(caps) THEN i + 1 ELSE 0

\* first loop: the next position after i whose model declares the task type,
\* 0 when the loop ends
NextDeclaring(caps, ty, i) ==
  IF \E k \in (i + 1)..Len(caps) : ty \in caps[k].tasks
    THEN CHOOSE k \in (i + 1)..Len(caps) :
           /\ ty \in caps[k].tasks
           /\ \A j \in (i + 1)..(k - 1) : ty \notin caps[j].tasks
    ELSE 0

\* the call goes on after position i of the first loop: to the next probe of
\* that loop, to the first probe of the fallback loop, or to the raise
AfterCapability(s, i) ==
  LET k == NextDeclaring(s.capabilities, s.task_type, i)
  IN IF k # 0 THEN [s EXCEPT !.pc = "probing", !.loop = "capabilities", !.i = k]
     ELSE IF s.fallback_order # <<>>
       THEN [s EXCEPT !.pc = "probing", !.loop = "fallback", !.i = 1]
     ELSE [s EXCEPT !.pc = "raised", !.loop = "none", !.i = 0]

\* the call goes on after position i of the fallback loop
AfterFallback(s, i) ==
  IF i + 1 <= Len(s.fallback_order)
    THEN [s EXCEPT !.i = i + 1]
    ELSE [s EXCEPT !.pc = "raised", !.loop = "none", !.i = 0]

\* the model whose probe is awaited
Probed(s) ==
  IF s.loop = "capabilities" THEN s.capabilities[s.i].name ELSE s.fallback_order[s.i]

\* get_best_model_for_task(task_type) is called: runs up to the first probe
SelectBegin(ty, caps, order) ==
  /\ sel.pc = "idle"
  /\ sel' = AfterCapability([NoSelect EXCEPT !.task_type = ty, !.capabilities = caps,
                                             !.fallback_order = order], 0)
  /\ UNCHANGED <<configVars, poolVars, callerVars, batchVars, histVars, exec, ws, gate>>

\* the awaited _check_model_availability returns
ProbeReturn(out) ==
  /\ sel.pc = "probing"
  /\ LET ok == check_model_availability(out)
         s == [sel EXCEPT !.probes = Append(@, <<Probed(sel), ok>>)]
     IN sel' = IF ok THEN [s EXCEPT !.pc = "returned", !.result = Probed(sel)]
               ELSE IF sel.loop = "capabilities" THEN AfterCapability(s, sel.i)
               ELSE AfterFallback(s, sel.i)
  /\ UNCHANGED <<configVars, poolVars, callerVars, batchVars, histVars, exec, ws, gate>>

SelectNext ==
  \/ \E ty \in SelectTaskTypes, caps \in CapabilityMaps, order \in FallbackOrders :
       SelectBegin(ty, caps, order)
  \/ \E out \in ProbeOutcomes : ProbeReturn(out)

\* one call of the model selection under every sequence of probe outcomes
SelectSpec == Init /\ [][SelectNext]_vars

(* -------------------------- ConnectionManager -------------------------- *)
\* list.remove(x): drops the first occurrence; ValueError is swallowed
Remove(q, x) ==
  IF \E i \in 1..Len(q) : q[i] = x
    THEN LET i == CHOOSE i \in 1..Len(q) : q[i] = x /\ \A j \in 1..(i - 1) : q[j] # x
         IN SubSeq(q, 1, i - 1) \o SubSeq(q, i + 1, Len(q))
    ELSE q

RECURSIVE RemoveAll(_, _)
\* for conn in disconnected: remove conn
RemoveAll(q, gone) ==
  IF gone = <<>> THEN q ELSE RemoveAll(Remove(q, Head(gone)), Tail(gone))

\* the sockets of a list
Members(q) == {q[i] : i \in 1..Len(q)}

RECURSIVE Iterate(_, _, _)
\* the for loop over the live list, from the iterator's position up to the
\* next awaited send_json or to the end of the loop
Iterate(conns, closed, c) ==
  IF c.idx >= Len(conns) THEN [c EXCEPT !.pc = "done", !.connection = 0]
  ELSE LET x == conns[c.idx + 1]
       IN IF x \in closed
            THEN Iterate(conns, closed,
                         [c EXCEPT !.idx = @ + 1,
                                   !.disconnected = Append(@, x),
                                   !.failed = @ \cup {x}])
            ELSE [c EXCEPT !.pc = "sending", !.idx = @ + 1, !.connection = x]

\* every running call loses the sockets that leave the list
Leaves(calls, gone) ==
  [b \in Broadcasts |->
     IF calls[b].pc = "sending" THEN [calls[b] EXCEPT !.stayed = @ \ gone] ELSE calls[b]]

\* a broadcast call runs its loop on, and its cleanup when the loop has ended
Resume(b, c) ==
  LET next == Iterate(ws.active_connections, ws.closed, c)
  IN IF next.pc = "sending"
       THEN ws' = [ws EXCEPT !.calls[b] = next]
       ELSE LET gone == Members(next.disconnected)
                done == [next EXCEPT !.stayed = @ \ gone]
            IN ws' = [ws EXCEPT
                        !.active_connections = RemoveAll(@, next.disconnected),
                        !.calls = [Leaves(ws.calls, gone) EXCEPT ![b] = done]]

\* connect(websocket, channel): accept() has returned, the socket is appended
Connect(x) ==
  /\ x \notin ws.known
  /\ ws' = [ws EXCEPT !.active_connections = Append(@, x), !.known = @ \cup {x}]
  /\ UNCHANGED <<configVars, poolVars, callerVars, batchVars, histVars, exec, sel, gate>>

\* the client goes away: client_state leaves CONNECTED
Close(x) ==
  /\ x \in ws.known
  /\ x \notin ws.closed
  /\ ws' = [ws EXCEPT !.closed = @ \cup {x}]
  /\ UNCHANGED <<configVars, poolVars, callerVars, batchVars, histVars, exec, sel, gate>>

\* disconnect(websocket, channel), called by the endpoint of the socket
Disconnect(x) ==
  /\ x \in Members(ws.active_connections)
  /\ ws' = [ws EXCEPT !.active_connections = Remove(@, x),
                      !.calls = Leaves(ws.calls, {x})]
  /\ UNCHANGED <<configVars, poolVars, callerVars, batchVars, histVars, exec, sel, gate>>

\* broadcast(message, channel) is called
BroadcastBegin(b) ==
  /\ ws.calls[b].pc = "idle"
  /\ \A a \in Broadcasts : a < b => ws.calls[a].pc # "idle"
  /\ Resume(b, [NoBroadcast EXCEPT !.stayed = Members(ws.active_connections)])
  /\ UNCHANGED <<configVars, poolVars, callerVars, batchVars, histVars, exec, sel, gate>>

\* the awaited send_json returns, or raises for a socket that has gone
SendReturn(b) ==
  /\ ws.calls[b].pc = "sending"
  /\ LET c == ws.calls[b]
         x == c.connection
         sent == [c EXCEPT !.attempted = @ \cup {x}]
     IN Resume(b, IF x \in ws.closed
                    THEN [sent EXCEPT !.disconnected = Append(@, x),
                                      !.failed = @ \cup {x}]
                    ELSE sent)
  /\ UNCHANGED <<configVars, poolVars, callerVars, batchVars, histVars, exec, sel, gate>>

WsNext ==
  \/ \E x \in Sockets : Connect(x)
  \/ \E x \in Sockets : Close(x)
  \/ \E x \in Sockets : Disconnect(x)
  \/ \E b \in Broadcasts : BroadcastBegin(b)
  \/ \E b \in Broadcasts : SendReturn(b)

\* the channel under connects, disconnects and concurrent broadcasts
WsSpec == NormInit /\ [][WsNext]_vars

(* ------------------- OptimusV3.normalize_product_type ------------------- *)
\* texts a string can have: t tokens and n characters after stripping need
\* n >= 2t - 1, a prefixed text has at least the 3 characters of "i'm", and
\* only the empty text has no token
Texts(id) ==
  {Str(id, n, t, p, pad) :
     n \in {2, 3, 30, 100, 200, 201}, t \in {1, 2, 10, 11}, p \in BOOLEAN, pad \in {0, 2}}

WellFormed(x) ==
  /\ x.len >= 2 * x.words - 1
  /\ x.prefix => x.len >= MinLength

Strings(id) == {x \in Texts(id) : WellFormed(x)} \cup {EmptyStr, Str("", 0, 0, FALSE, 2)}

\* candidate.strip()
strip(x) == [x EXCEPT !.pad = 0]

\* len(candidate)
len(x) == x.len + x.pad

\* `not candidate`
Falsy(x) == len(x) = 0

\* title[:80]; a cut text is a different text
Cut(x, n) ==
  IF len(x) <= n THEN x
  ELSE Str(x.id \o "[:80]", n - (IF x.pad > 0 THEN 1 ELSE 0), Min(x.words, MaxTokens),
           x.prefix, IF x.pad > 0 THEN 1 ELSE 0)

\* the same tests without the strip
is_valid_taxonomy_raw(x) ==
  /\ ~Falsy(x)
  /\ ~(x.words > MaxTokens)
  /\ ~(x.prefix /\ x.pad = 0)
  /\ ~(len(x) < MinLength \/ len(x) > MaxLength)

\* is_valid_taxonomy(candidate), test by test
is_valid_taxonomy(x) ==
  /\ ~Falsy(x)
  /\ ~(strip(x).words > MaxTokens)
  /\ ~strip(x).prefix
  /\ ~(len(strip(x)) < MinLength \/ len(strip(x)) > MaxLength)

\* normalize_product_type(product): `template` says whether the prompt
\* template exists, `candidate` is what the reply holds under "category"
normalize_product_type(template, candidate, product_type, title) ==
  IF template /\ is_valid_taxonomy(candidate) THEN strip(candidate)
  ELSE IF is_valid_taxonomy(product_type) THEN product_type
  ELSE IF ~Falsy(product_type) THEN product_type
  ELSE Cut(title, TitleCut)

NormalizeProductType(template, candidate, product_type, title) ==
  /\ gate.pc = "idle"
  /\ gate' = [pc |-> "done", template |-> template, candidate |-> candidate,
              product_type |-> product_type, title |-> title,
              result |-> normalize_product_type(template, candidate, product_type, title)]
  /\ UNCHANGED <<configVars, poolVars, callerVars, batchVars, histVars, exec, sel, ws>>

\* the products and replies followed: every candidate, against a few
\* product types and titles
ProductTypes == {EmptyStr, Str("type", 2, 1, FALSE, 0), Str("type", 30, 2, FALSE, 0),
                 Str("type", 201, 2, FALSE, 0)}

Titles == {EmptyStr, Str("title", 30, 2, FALSE, 0), Str("title", 100, 10, FALSE, 0)}

GateNext ==
  \E template \in BOOLEAN, candidate \in Strings("candidate"),
     product_type \in ProductTypes, title \in Titles :
    NormalizeProductType(template, candidate, product_type, title)

\* one call of normalize_product_type for every reply and product
GateSpec == NormInit /\ [][GateNext]_vars

(* ------------------------------- claims -------------------------------- *)
AllWorkersExited == \A w \in PoolWorkers : wpc[w] = "exited"

\* C1: every task accepted between start() and stop() gets exactly one Result
\* published and is executed by exactly one worker: never two publications or
\* two dequeues, and never zero -- once every worker loop has ended nothing can
\* be published any more, so by then each accepted task must have its Result.
C1_ExactlyOneResult ==
  /\ \A t \in TaskIds : published[t] <= 1 /\ dequeued[t] <= 1
  /\ AllWorkersExited =>
       \A t \in before_stop : published[t] = 1 /\ dequeued[t] = 1

\* C2: stop() drains the queue: it returns, and when it has returned every task
\* submitted before the call was dequeued, executed and marked done. Once stop()
\* was called and every worker loop has ended, stop() must have returned or be
\* able to return (join() has nothing left to wait for).
C2_StopDrains ==
  /\ stop_pc = "returned" =>
       \A t \in before_stop : dequeued[t] = 1 /\ published[t] = 1 /\ t \in done_marked
  /\ (stop_pc = "joining" /\ AllWorkersExited) =>
       /\ unfinished_tasks = 0
       /\ \A t \in before_stop : dequeued[t] = 1 /\ t \in done_marked

\* position of task id t in the queue q (0 when absent)
QueuePos(q, t) == IF \E i \in 1..Len(q) : q[i] = t
                    THEN CHOOSE i \in 1..Len(q) : q[i] = t
                    ELSE 0

\* t is served before u: lower numeric priority, or equal priority and queued earlier
ServedBefore(q, t, u) ==
  \/ tasks[t].priority < tasks[u].priority
  \/ tasks[t].priority = tasks[u].priority /\ QueuePos(q, t) < QueuePos(q, u)

\* C3: a worker always dequeues the waiting task with the lowest numeric
\* priority, and among equal priorities the one submitted first.
C3_PriorityOrder ==
  [][\A w \in Workers :
       (wpc[w] = "get" /\ wpc'[w] = "handler") =>
         \A i \in 1..Len(task_queue) :
           task_queue[i] # wtask'[w] => ServedBefore(task_queue, wtask'[w], task_queue[i])]_vars

\* C8: for a task whose handler failed on every attempt, a get_result call that
\* did not time out returns a Result with success = false; it does not raise,
\* whether it waited on the future or was served from the cache. (Left out:
\* calls on a future an earlier timeout cancelled, which is C11's case, and
\* calls after the Result was evicted, which is C9's.)
C8_FailedResultReturned ==
  \A c \in Callers :
    (/\ cpc[c] = "idle"
     /\ ctask[c] \in failed_tasks
     /\ cout[c].kind \notin {"none", "timeout", "cancelled", "not_found"})
      => cout[c] = Outcome("result", FALSE)

\* C9: a cleanup cycle evicts a Result only when at least the TTL has elapsed
\* since that Result was published.
C9_EvictAfterTTL ==
  [][\A t \in TaskIds :
       (InResults(t) /\ results'[t] = NoResult) => now' - pub_time[t] >= ResultTTL]_vars

Finalized == pipeline_run.status \in {"COMPLETED", "FAILED"}

\* C4: in every state of a batch run the counters written to its PipelineRun
\* satisfy processed + failed <= total.
C4_CountersWithinTotal ==
  pipeline_run.processed + pipeline_run.failed <= pipeline_run.total

\* C5: once the PipelineRun is finalized (COMPLETED or FAILED) the counters
\* written to it satisfy processed + failed = total.
C5_CountersCompleteAtFinalize ==
  Finalized => pipeline_run.processed + pipeline_run.failed = pipeline_run.total

\* C6: the PipelineRun is finalized COMPLETED exactly when every product id of
\* the batch succeeded (successful Result and all persistence steps done), and
\* FAILED otherwise.
C6_CompletedIffAllSucceeded ==
  Finalized =>
    (pipeline_run.status = "COMPLETED" <=> batch.ok_products = 1..batch.total)

HasEntry(p) == \E i \in 1..Len(batch.results) : batch.results[i].product_id = p

\* C7: whatever per-product call raises (fan-out get_product, submit, the
\* persistence steps, update_pipeline_run), the call returns instead of
\* raising, and the list it returns has an outcome for every product id.
C7_FailuresAccumulated ==
  (batch.pc \in {"returned", "raised"} /\ batch.exc \notin {"create_run", "finalize"}) =>
    /\ batch.pc = "returned"
    /\ \A p \in 1..batch.total : HasEntry(p)

\* the coordinator's get_result for pair k of its list has given its outcome
Consumed(k) == k < batch.col_i \/ (k = batch.col_i /\ batch.pc # "waiting")

\* C10: less than the TTL after publication get_result never raises the
\* unknown-task error for a task of the batch, and a product whose task
\* succeeded (and did not time out for the coordinator) is recorded as processed.
C10_ServedFromCache ==
  now < ResultTTL =>
    /\ \A i \in 1..Len(batch.results) : batch.results[i].error # "not_found"
    /\ \A k \in 1..Len(batch.task_futures) :
         LET t == batch.task_futures[k][1]
             p == batch.task_futures[k][2]
         IN (/\ Consumed(k)
             /\ published[t] = 1
             /\ t \notin failed_tasks
             /\ Entry(p, "timeout", "Task timed out") \notin
                  {batch.results[i] : i \in 1..Len(batch.results)})
              => Entry(p, "success", "") \in
                   {batch.results[i] : i \in 1..Len(batch.results)}

\* C11: a future is resolved once: a worker resolves the future of a task only
\* while it is pending, and a future that is resolved or cancelled never changes.
C11_FutureResolvedOnce ==
  [][\A t \in TaskIds :
       /\ (published'[t] # published[t] /\ t \in task_futures) => Resolvable(t)
       /\ future[t] \notin {"none", "pending"} => future'[t] = future[t]]_vars

\* the step is one of the result processor (eviction and _health_check)
MonitorStep == rp_steps' # rp_steps

\* C12: the health monitor only ever takes a status from ERROR to IDLE; every
\* other status change of a worker is made by a step of that worker.
C12_StatusSingleWriter ==
  [][\A w \in Workers :
       status'[w] # status[w] =>
         IF MonitorStep THEN status[w] = "error" /\ status'[w] = "idle"
                        ELSE wpc'[w] # wpc[w]]_vars

\* C13: a worker in ERROR is reset by the next health-monitor cycle: a cycle
\* leaves no worker in ERROR and resets its error_count, and whenever a worker
\* is in ERROR there is a monitor left to run that cycle.
C13_ErrorRecovered ==
  [][/\ MonitorStep =>
          \A w \in Workers :
            status[w] = "error" => status'[w] = "idle" /\ error_count'[w] = 0
     /\ \A w \in Workers : status'[w] = "error" => rp_pc' # "exited"]_vars

InSeq(q, t) == \E i \in 1..Len(q) : q[i] = t

\* C14: the queue never holds more than queue_size tasks; a submit_task made
\* while the queue is full enqueues nothing and waits; a waiting submit is never
\* dropped, enqueues its task only once there is room, and can go on as soon as
\* there is room.
C14_Backpressure ==
  [][/\ Len(task_queue') <= queue_size'
     /\ \A t \in TaskIds :
          /\ (future[t] = "none" /\ future'[t] = "pending" /\ QueueFull) =>
               /\ InSeq(putters', t)
               /\ task_queue' = task_queue
               /\ t \notin accepted'
          /\ InSeq(putters, t) =>
               \/ InSeq(putters', t) /\ ~InSeq(task_queue', t)
               \/ /\ Len(task_queue) < queue_size
                  /\ task_queue' = Append(task_queue, t)
                  /\ t \in accepted'
     /\ (putters # <<>> /\ ~QueueFull /\ ~Booting) => ENABLED PutResume]_vars

\* a submit that found the queue full has since enqueued its task
C14_Witness == \E t \in blocked : t \in accepted /\ dequeued[t] = 1

\* workers whose process_task is awaiting the handler
Executing == {w \in Workers : wpc[w] = "handler"}

\* workers with status BUSY
Busy == {w \in Workers : status[w] = "busy"}

\* tasks a worker has dequeued and not yet published
InFlight == {t \in TaskIds : dequeued[t] > published[t]}

\* C15: at most max_workers handlers execute at once, at most max_workers
\* workers are BUSY, and at most max_workers tasks are in flight, however many
\* tasks were submitted.
C15_BoundedParallelism ==
  /\ Cardinality(Executing) <= max_workers
  /\ Cardinality(Busy) <= max_workers
  /\ Cardinality(InFlight) <= max_workers

\* every worker of the pool is executing a handler while another task waits
C15_Witness ==
  /\ Cardinality(Executing) = max_workers
  /\ Cardinality(Busy) = max_workers
  /\ task_queue # <<>>

\* position of a persistence step within one product's sequence
StepRank(step) ==
  CASE step = "fetch" -> 1 [] step = "update" -> 2 [] step = "tags" -> 3 [] step = "log" -> 4

PersistStates == {"persist_fetch", "persist_update", "persist_tags", "persist_log"}

\* the persistence calls completed for product p, in order
StepsOf(log, p) == SelectSeq(log, LAMBDA e : e[1] = p)

\* product p has an error entry from a persistence step
PersistFailed(p) ==
  \E i \in 1..Len(batch.results) : batch.results[i] = Entry(p, "error", "persistence")

\* C17: a persistence call that raises ends the product: the coordinator goes
\* straight to the end of the product, one failure is counted and an error
\* entry recorded, no further call is made for that product, and the calls
\* already completed stay as they are.
C17_AbortWithoutRollback ==
  [][/\ (batch.pc \in PersistStates /\ batch' # batch /\ batch'.db_log = batch.db_log) =>
          /\ batch'.pc = "update_run"
          /\ batch'.col_i = batch.col_i
          /\ batch'.failed_count = batch.failed_count + 1
          /\ batch'.results =
               Append(batch.results, Entry(CurrentProduct(batch), "error", "persistence"))
     /\ batch.pc # "idle" =>
          /\ Len(batch.db_log) <= Len(batch'.db_log)
          /\ SubSeq(batch'.db_log, 1, Len(batch.db_log)) = batch.db_log
     /\ \A p \in 1..MaxProducts :
          PersistFailed(p) =>
            /\ StepsOf(batch'.db_log, p) = StepsOf(batch.db_log, p)
            /\ <<p, "log">> \notin {batch.db_log[i] : i \in 1..Len(batch.db_log)}]_vars

\* the batch has returned; product 1's update was applied, a later step of it
\* raised, it has no audit entry and is recorded as failed
C17_Witness ==
  /\ batch.pc = "returned"
  /\ PersistFailed(1)
  /\ StepsOf(batch.db_log, 1) = <<<<1, "fetch">>, <<1, "update">>>>

\* how many times the persistence call `step` completed for product p
Calls(log, p, step) == Len(SelectSeq(log, LAMBDA e : e = <<p, step>>))

\* the collection of the current product ends in this step
ProductEnds == batch.pc \in PersistStates \cup {"waiting"} /\ batch'.pc = "update_run"

\* at that point the product went through its snapshot, its product update
\* and its tag replacement (each where the reply calls for it)
PersistedThrough(log, p) ==
  /\ Calls(log, p, "fetch") = 1
  /\ batch.reply.update => Calls(log, p, "update") = 1
  /\ batch.reply.tags => Calls(log, p, "tags") = 1

\* C18: when the collection of a product ends, the product has exactly one
\* audit entry if its task succeeded and its update and tag replacement
\* completed, none if its task failed or timed out, and never two.
C18_ExactlyOneAudit ==
  [][/\ ProductEnds =>
          /\ PersistedThrough(batch'.db_log, CurrentProduct(batch)) =>
               Calls(batch'.db_log, CurrentProduct(batch), "log") = 1
          /\ batch.pc = "waiting" =>
               Calls(batch'.db_log, CurrentProduct(batch), "log") = 0
     /\ \A p \in 1..MaxProducts : Calls(batch'.db_log, p, "log") <= 1]_vars

\* update_product_details calls the coordinator completed for the product of task t
CoordinatorWrites(t) ==
  IF \E k \in 1..Len(batch.task_futures) : batch.task_futures[k][1] = t
    THEN Calls(batch.db_log,
               batch.task_futures[CHOOSE k \in 1..Len(batch.task_futures) :
                                    batch.task_futures[k][1] = t][2],
               "update")
    ELSE 0

\* C19: in one batch run the product of a task is written by
\* update_product_details at most once, counting the writes made inside the
\* handler runs of the task (first run and retries) and the coordinator's.
C19_WriteOnce ==
  \A t \in TaskIds : batch.handler_writes[t] + CoordinatorWrites(t) <= 1

\* C20: whatever the generate calls come to, the executor does not raise; what
\* it returns either passes _validate_response for the task type or is the
\* rule-based map, which carries fallback_used; and the rule-based map of every
\* task type that has required fields passes _validate_response itself.
C20_ExecutorContract ==
  /\ exec.pc # "raised"
  /\ exec.pc = "returned" =>
       \/ validate_response(exec.result, exec.task_type)
       \/ /\ exec.result = rule_based_fallback(exec.task_type)
          /\ "fallback_used" \in exec.result
  /\ \A ty \in TaskTypes :
       required_fields(ty) # <<>> => validate_response(rule_based_fallback(ty), ty)

\* three generate calls failed in three different ways and the rule-based map
\* of a task type with required fields was returned
C20_Witness ==
  /\ exec.pc = "returned"
  /\ exec.outcomes = <<"transport", "non2xx", "unparsable">>
  /\ exec.task_type = "tag_optimization"
  /\ "fallback_used" \in exec.result

\* the models get_best_model_for_task has to try, in order: those of the
\* capability map that declare the task type, then the fallback order
Candidates ==
  LET d == SelectSeq(sel.capabilities, LAMBDA c : sel.task_type \in c.tasks)
  IN [k \in 1..Len(d) |-> d[k].name] \o sel.fallback_order

\* C21: the probes made are the candidates in order, every probe but the last
\* answered false; a returned model is the one whose probe just answered true
\* (so it declares the task type whenever a declaring model was still to try);
\* the call raises exactly when every candidate was probed and none was available.
C21_ModelSelection ==
  /\ Len(sel.probes) <= Len(Candidates)
  /\ \A k \in 1..Len(sel.probes) :
       /\ sel.probes[k][1] = Candidates[k]
       /\ k < Len(sel.probes) => ~sel.probes[k][2]
  /\ sel.pc = "returned" =>
       /\ sel.probes # <<>>
       /\ sel.probes[Len(sel.probes)] = <<sel.result, TRUE>>
  /\ sel.pc = "raised" =>
       /\ Len(sel.probes) = Len(Candidates)
       /\ \A k \in 1..Len(sel.probes) : ~sel.probes[k][2]
  /\ sel.pc = "probing" =>
       /\ Len(sel.probes) < Len(Candidates)
       /\ Probed(sel) = Candidates[Len(sel.probes) + 1]
       /\ \A k \in 1..Len(sel.probes) : ~sel.probes[k][2]

\* the only declaring model was unavailable, the first fallback model too, and
\* the second fallback model is returned although an undeclaring model precedes
\* the declaring one in the capability map
C21_Witness ==
  /\ sel.pc = "returned"
  /\ sel.capabilities = <<[name |-> "m2", tasks |-> {}],
                          [name |-> "m1", tasks |-> {"meta_optimization"}]>>
  /\ sel.task_type = "meta_optimization"
  /\ sel.probes = <<<<"m1", FALSE>>, <<"m1", FALSE>>, <<"m2", TRUE>>>>

\* C21 as stated: all of the above, and the returned model has no probe in
\* this call that answered false.
C21_NeverProbedFalse ==
  /\ C21_ModelSelection
  /\ sel.pc = "returned" =>
       \A k \in 1..Len(sel.probes) : sel.probes[k][1] = sel.result => sel.probes[k][2]

\* C22: when the reply of a task passed _validate_response, every required
\* field of the task type has a non-empty value in the `new` payload of the
\* ChangeLog entry.
C22_RequiredNonEmpty ==
  (exec.pc = "logged" /\ validate_response(exec.result, exec.task_type)) =>
    \A f \in Range(required_fields(exec.task_type)) :
      f \in exec.new.keys /\ f \notin exec.new.blank

\* C23: when a broadcast call ends, every socket that was in the channel's
\* list from the start of the call to its end had its delivery attempted, and
\* no socket whose delivery failed in this call is still in the list.
C23_BroadcastReachesAll ==
  \A b \in Broadcasts :
    ws.calls[b].pc = "done" =>
      /\ ws.calls[b].stayed \subseteq ws.calls[b].attempted
      /\ ws.calls[b].failed \cap Members(ws.active_connections) = {}

\* batch_process_products has exited, by return or by exception
Exited == batch.pc \in {"returned", "raised"}

\* C24: once the call has exited, the PipelineRun it created has been completed
\* exactly once and is not RUNNING; and no completion happens before the exit
\* path is taken.
C24_FinalizedOnce ==
  /\ pipeline_run.completions <= 1
  /\ pipeline_run.completions = 1 => Exited
  /\ (Exited /\ pipeline_run.status # "none") =>
       /\ pipeline_run.completions = 1
       /\ pipeline_run.status \in {"COMPLETED", "FAILED"}

\* the rejection rule of the claim, on the stripped candidate
Rejected(x) ==
  \/ x.words > MaxTokens
  \/ x.len < MinLength
  \/ x.len > MaxLength
  \/ x.prefix

MaxAttempt == 6

\* the step of worker w in which process_task returns
Returns(w) == wpc[w] = "handler" /\ wpc'[w] \notin {"handler", "backoff"}

\* C26: process_task calls the handler one invocation at a time, numbered by
\* attempt from 0; a failed invocation with attempts left is followed by a
\* sleep of min(2^attempt, 30) seconds and then by invocation attempt + 1;
\* there are never more than max_retries + 1 invocations; a failed result is
\* returned only after invocation number max_retries failed, a successful one
\* at the first success; when process_task returns current_task is cleared
\* and the status is IDLE (ERROR is what _worker_loop sets afterwards, when
\* resolving an already cancelled future raised).
C26_RetryLoop ==
  [][\A w \in Workers :
       /\ wpc[w] \in {"handler", "backoff"} =>
            attempt[w] <= tasks[wtask[w]].max_retries
       /\ (wpc[w] = "handler" /\ wpc'[w] = "backoff") =>
            /\ attempt[w] < tasks[wtask[w]].max_retries
            /\ sleep_for'[w] = Min(2 ^ attempt[w], MaxBackoff)
            /\ attempt'[w] = attempt[w]
            /\ \A a \in 0..MaxAttempt :
                 wait_time(a) = IF a >= 5 THEN MaxBackoff ELSE 2 ^ a
       /\ (wpc[w] = "backoff" /\ wpc'[w] # "backoff") =>
            /\ wpc'[w] = "handler"
            /\ attempt'[w] = attempt[w] + 1
       /\ Returns(w) =>
            /\ published'[wtask[w]] = published[wtask[w]] + 1
            /\ ~results'[wtask[w]].success =>
                 attempt[w] = tasks[wtask[w]].max_retries
            /\ current_task'[w] = NoTask
            /\ status'[w] = IF wtask[w] \in task_futures /\ ~Resolvable(wtask[w])
                              THEN "error" ELSE "idle"]_vars

\* a worker sleeps 4 seconds after the third failed invocation of a task
\* that has the default of 3 retries
C26_Witness ==
  \E w \in Workers :
    /\ wpc[w] = "backoff"
    /\ tasks[wtask[w]].max_retries = DefaultMaxRetries
    /\ attempt[w] = 2
    /\ sleep_for[w] = 4

\* the generate call that ended with outcome out gave no usable reply: it
\* raised, or its reply is empty or fails validation
FailedCall(out, ty) ==
  \/ Raised(out) # ""
  \/ parse_model_response(out, ty) = {}
  \/ ~validate_response(parse_model_response(out, ty), ty)

\* C27: when _call_model_with_fallback has returned after a last generate call
\* that gave no usable reply, which is when it returns the rule-based map,
\* exactly max_retries generate calls were made and each of them failed.
C27_FallbackAfterAllAttempts ==
  (/\ exec.pc = "returned"
   /\ FailedCall(exec.outcomes[Len(exec.outcomes)], exec.task_type)) =>
    /\ exec.result = rule_based_fallback(exec.task_type)
    /\ Len(exec.outcomes) = ExecMaxRetries
    /\ \A i \in 1..Len(exec.outcomes) : FailedCall(exec.outcomes[i], exec.task_type)

\* the step in which the coordinator has consumed the result of one more pair
\* of its task list and has passed the progress test for it
ConsumedOne ==
  /\ batch'.pc = "update_run"
  /\ batch.pc # "update_run" \/ batch'.col_i # batch.col_i

\* C28: when the k-th result of a batch has been consumed, a progress snapshot
\* is broadcast if k is a multiple of 5 or the result is the last one of the
\* batch, and not otherwise.
C28_ProgressCadence ==
  [][ConsumedOne =>
       LET k == batch'.col_i
           due == k % ProgressEvery = 0 \/ k = Len(batch'.task_futures)
       IN Len(batch'.broadcasts) = Len(batch.broadcasts) + (IF due THEN 1 ELSE 0)]_vars

\* the entries of the outcome list for product p
EntriesOf(p) == {i \in 1..Len(batch.results) : batch.results[i].product_id = p}

\* C30: when the coordinator is through with the k-th result of its task
\* list, the two counters add up to k, the outcome list has k entries, one
\* for each product consumed so far, and no product has both a success entry
\* and a failure entry.
C30_CountedOnce ==
  batch.pc = "update_run" =>
    /\ batch.processed_count + batch.failed_count = batch.col_i
    /\ Len(batch.results) = batch.col_i
    /\ \A k \in 1..batch.col_i :
         Cardinality(EntriesOf(batch.task_futures[k][2])) = 1

\* C29: a worker that finishes a task whose future a timed-out get_result has
\* cancelled stores the Result, marks the queue item done, removes the task's
\* entry from the futures map, and is not left in status ERROR.
C29_BookkeepingAfterTimeout ==
  [][\A w \in Workers :
       (/\ wtask[w] # NoTask
        /\ published'[wtask[w]] = published[wtask[w]] + 1
        /\ future[wtask[w]] = "cancelled") =>
         /\ results'[wtask[w]] # NoResult
         /\ wtask[w] \in done_marked'
         /\ unfinished_tasks' = unfinished_tasks - 1
         /\ wtask[w] \notin task_futures'
         /\ status'[w] # "error"]_vars

====
